---- MODULE Spec2Model ----
(***************************************************************************)
(* The publish store module (src/store/modules/publish.ts): its state, its *)
(* mutations and its seven actions, with the build service and the         *)
(* upstream generator / serviceworker modules as the environment.          *)
(*                                                                         *)
(* A JavaScript promise settles once: the first reject or resolve wins and *)
(* later ones are ignored.  A reject inside a promise executor does not    *)
(* leave the executor, so the statements after it still run.  An exception *)
(* thrown inside an async executor rejects the executor's own (discarded)  *)
(* promise and leaves the promise under construction as it was.            *)
(***************************************************************************)
EXTENDS Integers, Sequences, FiniteSets, TLC

VARIABLES
    state,       \* the module's State: status, archiveLink, appXLink, downloadDisabled
    rootState,   \* what the actions read of the other modules: generator, serviceworker
    calls,       \* one record per invocation of build / buildAppx / buildTeams
    resetLog     \* root dispatches made by the latest resetAppData

vars == <<state, rootState, calls, resetLog>>

\* ------------------------------------------------------------------ bounds

\* invocations of build, buildAppx and buildTeams made by callers in one run
MaxCalls == 2

\* ------------------------------------------------------------------ values

NULL == "<null>"
UNDEFINED == "<undefined>"

\* JavaScript truthiness of a string-or-absent value
Falsy(v) == v \in {NULL, UNDEFINED, ""}

platforms ==
    [web |-> "web", windows10 |-> "windows10", windows |-> "windows",
     ios |-> "ios", android |-> "android", androidTWA |-> "android-twa",
     samsung |-> "samsung", msteams |-> "msteams", all |-> "All"]

types ==
    [UPDATE_STATUS |-> "UPDATE_STATUS", UPDATE_ARCHIVELINK |-> "UPDATE_ARCHIVELINK",
     UPDATE_APPXLINK |-> "UPDATE_APPXLINK",
     UPDATE_DOWNLOAD_DISABLED |-> "UPDATE_DOWNLOAD_DISABLED"]

\* ------------------------------------------------------------------ promises

PendingPromise == [st |-> "pending", val |-> UNDEFINED]

\* A variant in which a later reject replaces an earlier one.
reject_LastWins(p, reason) ==
    IF p.st # "fulfilled" THEN [st |-> "rejected", val |-> reason] ELSE p

reject(p, reason) ==
    IF p.st = "pending" THEN [st |-> "rejected", val |-> reason] ELSE p

resolve(p) ==
    IF p.st = "pending" THEN [st |-> "fulfilled", val |-> UNDEFINED] ELSE p

\* ------------------------------------------------------------------ mutations

\* status is kept as "null" | "true" | "false"
UPDATE_STATUS(s, status) == [s EXCEPT !.status = status]
\* A variant that keeps a link once one is stored.
UPDATE_ARCHIVELINK_KeepsFirst(s, url) ==
    IF s.archiveLink = NULL THEN [s EXCEPT !.archiveLink = url] ELSE s

\* A variant that writes the link into both link fields.
UPDATE_ARCHIVELINK_BothLinks(s, url) == [s EXCEPT !.archiveLink = url, !.appXLink = url]

UPDATE_ARCHIVELINK(s, url) == [s EXCEPT !.archiveLink = url]
UPDATE_APPXLINK(s, url) == [s EXCEPT !.appXLink = url]
\* A variant that flips the flag instead of storing the payload.
UPDATE_DOWNLOAD_DISABLED_Toggles(s, disabled) ==
    [s EXCEPT !.downloadDisabled = ~s.downloadDisabled]

UPDATE_DOWNLOAD_DISABLED(s, disabled) == [s EXCEPT !.downloadDisabled = disabled]

commit(s, type, payload) ==
    CASE type = types.UPDATE_STATUS -> UPDATE_STATUS(s, payload)
      [] type = types.UPDATE_ARCHIVELINK -> UPDATE_ARCHIVELINK(s, payload)
      [] type = types.UPDATE_APPXLINK -> UPDATE_APPXLINK(s, payload)
      [] type = types.UPDATE_DOWNLOAD_DISABLED -> UPDATE_DOWNLOAD_DISABLED(s, payload)

InitialState ==
    [status |-> "null", archiveLink |-> NULL, appXLink |-> NULL,
     downloadDisabled |-> FALSE]

\* ------------------------------------------------------------------ the build service

\* The archive links the service hands out.
Archives == {"https://x/y.zip", "https://x/z.zip"}

\* Error texts the service reports, and the two fault signatures buildAppx looks for.
PublisherMarker == "@Publisher\nPackage creation failed"
VersionMarker == "@Version\nPackage creation failed."
ObjectString == "[object Object]"

TextPublisher == "Error: @Publisher\nPackage creation failed: identity"
TextVersion == "Error: @Version\nPackage creation failed. version"
TextBoth == "@Version\nPackage creation failed.@Publisher\nPackage creation failed"
TextVersionNoDot == "@Version\nPackage creation failed: version"
TextOther == "Internal error"

\* The characters of each text, cut into runs: String.prototype.includes is a
\* search for a contiguous run of characters.
Chars ==
    [t \in {PublisherMarker, VersionMarker, ObjectString, TextPublisher, TextVersion,
            TextBoth, TextVersionNoDot, TextOther} |->
        CASE t = PublisherMarker -> <<"@Publisher", "\n", "Package creation failed">>
          [] t = VersionMarker -> <<"@Version", "\n", "Package creation failed", ".">>
          [] t = ObjectString -> <<"[object Object]">>
          [] t = TextPublisher ->
                <<"Error: ", "@Publisher", "\n", "Package creation failed", ": identity">>
          [] t = TextVersion ->
                <<"Error: ", "@Version", "\n", "Package creation failed", ".", " version">>
          [] t = TextBoth ->
                <<"@Version", "\n", "Package creation failed", ".",
                  "@Publisher", "\n", "Package creation failed">>
          [] t = TextVersionNoDot ->
                <<"@Version", "\n", "Package creation failed", ": version">>
          [] t = TextOther -> <<"Internal error">>]

includes(text, marker) ==
    LET s == Chars[text]
        m == Chars[marker]
    IN  \E i \in 1..(Len(s) - Len(m) + 1) : SubSeq(s, i, i + Len(m) - 1) = m

\* What the $post promise settles with.  ok: the request succeeded and the body
\* carries archive.  Otherwise the error e thrown into the catch block:
\* hasResponse is whether e.response exists (a transport failure has none);
\* dataKind is the shape of e.response.data: "absent" (no or empty body),
\* "object" (a decoded JSON body) or "text" (a non-empty raw body); error is
\* e.response.data.error, UNDEFINED when the body has no such field.
OkResponse(archive) ==
    [ok |-> TRUE, archive |-> archive, hasResponse |-> TRUE, dataKind |-> "absent",
     error |-> UNDEFINED, statusText |-> "OK"]

ErrResponse(dataKind, error) ==
    [ok |-> FALSE, archive |-> UNDEFINED, hasResponse |-> TRUE, dataKind |-> dataKind,
     error |-> error, statusText |-> "Internal Server Error"]

\* e.response.data itself, as the value a reject would carry
RawBody(resp) ==
    CASE resp.dataKind = "text" -> "Bad Gateway"
      [] resp.dataKind = "object" -> "<body object>"
      [] resp.dataKind = "absent" -> UNDEFINED

TransportFailure ==
    [ok |-> FALSE, archive |-> UNDEFINED, hasResponse |-> FALSE, dataKind |-> "absent",
     error |-> UNDEFINED, statusText |-> ""]

NoResponse == TransportFailure

Responses(texts) ==
    {OkResponse(a) : a \in Archives}
        \cup {ErrResponse("object", t) : t \in texts \cup {UNDEFINED}}
        \cup {ErrResponse("text", UNDEFINED), ErrResponse("absent", UNDEFINED),
              TransportFailure}

\* ------------------------------------------------------------------ invocations

\* One record per invocation: the executor's locals (manifestId, serviceworker),
\* the promise the caller holds, where the handler stands (pc: "await" at the
\* $post, "delegated" for a buildTeams that dispatched build, "done", or "threw"
\* when an exception left the executor), and what the invocation did: the
\* requests it sent, the mutations it committed, the actions it dispatched.
\* via is the index of the buildTeams invocation that dispatched a build, 0 for
\* an invocation made by a caller.  arrival numbers the answers of the service
\* in the order they arrive, 0 while there is none.
Invocation(op, via, params, manifestId, serviceworker, promise, pc, requests, dispatched) ==
    [op |-> op, via |-> via, params |-> params, manifestId |-> manifestId,
     serviceworker |-> serviceworker, promise |-> promise, pc |-> pc,
     requests |-> requests, commits |-> <<>>, dispatched |-> dispatched,
     answered |-> FALSE, resp |-> NoResponse, arrival |-> 0]

UserCalls == Cardinality({i \in DOMAIN calls : calls[i].via = 0})

NoOptions == [present |-> FALSE, items |-> <<>>]
Options(items) == [present |-> TRUE, items |-> items]

\* ------------------------------------------------------------------ build

BuildParams(platform, href, options) ==
    [present |-> TRUE, platform |-> platform, href |-> href, options |-> options]

\* build called with no params object at all
NoParams == [present |-> FALSE, platform |-> UNDEFINED, href |-> UNDEFINED, options |-> NoOptions]

\* A variant that keeps the all identifier in the expanded list.
platformsList_KeepsAll(platform) ==
    IF platform = platforms.all
    THEN <<platforms.web, platforms.windows10, platforms.windows, platforms.ios,
           platforms.android, platforms.androidTWA, platforms.samsung, platforms.msteams,
           platforms.all>>
    ELSE <<platform>>

\* A variant that sends the identifier registered under the key passed in.
platformsList_LooksUpKey(platform) ==
    IF platform = platforms.all
    THEN <<platforms.web, platforms.windows10, platforms.windows, platforms.ios,
           platforms.android, platforms.androidTWA, platforms.samsung, platforms.msteams>>
    ELSE IF platform \in DOMAIN platforms THEN <<platforms[platform]>> ELSE <<platform>>

platformsList(platform) ==
    IF platform = platforms.all
    THEN <<platforms.web, platforms.windows10, platforms.windows, platforms.ios,
           platforms.android, platforms.androidTWA, platforms.samsung, platforms.msteams>>
    ELSE <<platform>>

\* A variant that derives dirSuffix from the expanded list.
buildOptions_SuffixFromList(params) ==
    [platforms |-> platformsList(params.platform),
     dirSuffix |-> platformsList(params.platform)[1],
     parameters |-> params.options]

buildOptions(params) ==
    [platforms |-> platformsList(params.platform), dirSuffix |-> params.platform,
     parameters |-> params.options]

buildPost(manifestId, serviceworker, params) ==
    [endpoint |-> "build", manifestId |-> manifestId, ids |-> serviceworker,
     href |-> params.href, body |-> buildOptions(params)]

\* The executor of build up to its await.  Neither reject returns, so the
\* request is sent whatever the two checks found; with no params object the
\* read of params.platform after the second check throws.
buildManifestCheck(p, manifestId, serviceworker) ==
    IF Falsy(manifestId) \/ Falsy(serviceworker)
    THEN reject(p, "error.manifest_required")
    ELSE p

buildPlatformCheck(p, params) ==
    IF ~params.present \/ Falsy(params.platform)
    THEN reject(p, "error.platform_required")
    ELSE p

buildStart(root, params, via) ==
    LET manifestId == root.generator.manifestId
        serviceworker == root.serviceworker.serviceworker
        p1 == buildManifestCheck(PendingPromise, manifestId, serviceworker)
        p2 == buildPlatformCheck(p1, params)
    IN  IF params.present
        THEN Invocation("build", via, params, manifestId, serviceworker, p2, "await",
                        <<buildPost(manifestId, serviceworker, params)>>, <<>>)
        ELSE Invocation("build", via, params, manifestId, serviceworker, p2, "threw",
                        <<>>, <<>>)

\* let errorMessage = e.response.data ? e.response.data.error
\*                                     : e.response.data || e.response.statusText
buildErrorMessage(resp) ==
    IF resp.dataKind # "absent"
    THEN resp.error
    ELSE IF resp.dataKind # "absent" THEN RawBody(resp) ELSE resp.statusText

\* The executor of build from the settling of $post on.
buildSettle(c, resp) ==
    IF resp.ok
    THEN [c EXCEPT !.commits = <<[type |-> types.UPDATE_ARCHIVELINK, payload |-> resp.archive]>>,
                   !.promise = resolve(c.promise),
                   !.pc = "done", !.answered = TRUE, !.resp = resp]
    ELSE IF ~resp.hasResponse
    THEN [c EXCEPT !.pc = "threw", !.answered = TRUE, !.resp = resp]
    ELSE [c EXCEPT !.promise = reject(c.promise, buildErrorMessage(resp)),
                   !.pc = "done", !.answered = TRUE, !.resp = resp]

\* The promise buildTeams returns follows the promise of the build it dispatched.
follow(teams, promise) ==
    IF teams.promise.st = "pending" /\ promise.st # "pending"
    THEN [teams EXCEPT !.promise = promise, !.pc = "done"]
    ELSE teams

applyCommits(s, commits) ==
    IF commits = <<>> THEN s ELSE commit(s, commits[1].type, commits[1].payload)

Arrived == Cardinality({j \in DOMAIN calls : calls[j].answered})

Settled(i, c) ==
    /\ state' = applyCommits(state, c.commits)
    /\ calls' = [j \in DOMAIN calls |->
                    IF j = i THEN [c EXCEPT !.arrival = Arrived + 1]
                    ELSE IF j = c.via THEN follow(calls[j], c.promise)
                    ELSE calls[j]]
    /\ UNCHANGED <<rootState, resetLog>>

build(params) ==
    /\ UserCalls < MaxCalls
    /\ calls' = Append(calls, buildStart(rootState, params, 0))
    /\ UNCHANGED <<state, rootState, resetLog>>

buildResponse(i, resp) ==
    /\ calls[i].op = "build"
    /\ calls[i].pc = "await"
    /\ Settled(i, buildSettle(calls[i], resp))

\* ------------------------------------------------------------------ buildAppx

AppxParams(publisher, publisher_id, package, version) ==
    [publisher |-> publisher, publisher_id |-> publisher_id, package |-> package,
     version |-> version]

\* A variant that sends publisher and publisher_id under their own names.
appxOptions_Identity(params) ==
    [name |-> params.publisher_id, publisher |-> params.publisher,
     package |-> params.package, version |-> params.version]

appxOptions(params) ==
    [name |-> params.publisher, publisher |-> params.publisher_id,
     package |-> params.package, version |-> params.version]

appxPost(manifestId, params) ==
    [endpoint |-> "appx", manifestId |-> manifestId, ids |-> UNDEFINED,
     href |-> UNDEFINED, body |-> appxOptions(params)]

appxManifestCheck(p, manifestId) ==
    IF Falsy(manifestId) THEN reject(p, "error.manifest_required") ELSE p

appxFieldsCheck(p, params) ==
    IF Falsy(params.publisher) \/ Falsy(params.publisher_id)
        \/ Falsy(params.package) \/ Falsy(params.version)
    THEN reject(p, "error.fields_required")
    ELSE p

\* The executor of buildAppx up to its await: as in build, the request is sent
\* whatever the checks found.
appxStart(root, params) ==
    LET manifestId == root.generator.manifestId
        p1 == appxManifestCheck(PendingPromise, manifestId)
        p2 == appxFieldsCheck(p1, params)
    IN  Invocation("buildAppx", 0, params, manifestId, UNDEFINED, p2, "await",
                   <<appxPost(manifestId, params)>>, <<>>)

\* Check for common/known errors and simplify message
appxErrorMessage(error) ==
    IF includes(error, PublisherMarker) THEN "Invalid Publisher Identity."
    ELSE IF includes(error, VersionMarker) THEN "Invalid Version Number."
    ELSE "Package building error."

\* The executor of buildAppx from the settling of $post on.  In the catch block
\* e.response.data.error.toString() throws when the body has no error field,
\* and e.response.data throws when there is no response.
appxSettle(c, resp) ==
    IF resp.ok
    THEN [c EXCEPT !.commits = <<[type |-> types.UPDATE_APPXLINK, payload |-> resp.archive]>>,
                   !.promise = resolve(c.promise),
                   !.pc = "done", !.answered = TRUE, !.resp = resp]
    ELSE IF ~resp.hasResponse \/ (resp.dataKind # "absent" /\ resp.error = UNDEFINED)
    THEN [c EXCEPT !.pc = "threw", !.answered = TRUE, !.resp = resp]
    ELSE LET error == IF resp.dataKind # "absent" THEN resp.error ELSE ObjectString
         IN  [c EXCEPT !.promise = reject(c.promise, appxErrorMessage(error)),
                       !.pc = "done", !.answered = TRUE, !.resp = resp]

buildAppx(params) ==
    /\ UserCalls < MaxCalls
    /\ calls' = Append(calls, appxStart(rootState, params))
    /\ UNCHANGED <<state, rootState, resetLog>>

buildAppxResponse(i, resp) ==
    /\ calls[i].op = "buildAppx"
    /\ calls[i].pc = "await"
    /\ Settled(i, appxSettle(calls[i], resp))

\* ------------------------------------------------------------------ buildTeams

TeamsFields ==
    {"publisherName", "shortDescription", "longDescription", "privacyUrl",
     "termsOfUseUrl", "colorImageFile", "outlineImageFile"}

\* The option strings callers pass as options[0], and what JSON.parse makes of
\* each: ok is whether it parses to an object, fields the fields of that object
\* that hold a truthy value.
JsonEmpty == "{}"
JsonFull == "{publisherName,shortDescription,longDescription,privacyUrl,termsOfUseUrl,colorImageFile,outlineImageFile}"
JsonNoOutline == "{publisherName,shortDescription,longDescription,privacyUrl,termsOfUseUrl,colorImageFile}"
JsonNoTerms == "{publisherName,shortDescription,longDescription,privacyUrl,colorImageFile,outlineImageFile}"
JsonNoColor == "{publisherName,shortDescription,longDescription,privacyUrl,termsOfUseUrl,outlineImageFile}"
JsonNoPublisher == "{shortDescription,longDescription,privacyUrl,termsOfUseUrl,colorImageFile}"
JsonMalformed == "{publisherName:"

JSONparse(text) ==
    CASE text = JsonEmpty -> [ok |-> TRUE, fields |-> {}]
      [] text = JsonFull -> [ok |-> TRUE, fields |-> TeamsFields]
      [] text = JsonNoOutline -> [ok |-> TRUE, fields |-> TeamsFields \ {"outlineImageFile"}]
      [] text = JsonNoTerms -> [ok |-> TRUE, fields |-> TeamsFields \ {"termsOfUseUrl"}]
      [] text = JsonNoColor -> [ok |-> TRUE, fields |-> TeamsFields \ {"colorImageFile"}]
      [] text = JsonNoPublisher ->
            [ok |-> TRUE, fields |-> TeamsFields \ {"publisherName", "outlineImageFile"}]
      [] OTHER -> [ok |-> FALSE, fields |-> {}]

TeamsParams(href, options) == [href |-> href, options |-> options]

\* params.options ? params.options[0] : "{}"
teamsOptionText(options) ==
    IF options.present
    THEN IF Len(options.items) >= 1 THEN options.items[1] ELSE UNDEFINED
    ELSE JsonEmpty

teamsManifestCheck(p, manifestId) ==
    IF Falsy(manifestId) THEN reject(p, "error.manifest_required") ELSE p

\* A variant that requires outlineImageFile as well.
teamsFieldsCheck_RequiresOutline(p, fields) ==
    IF "publisherName" \notin fields \/ "longDescription" \notin fields
        \/ "shortDescription" \notin fields \/ "privacyUrl" \notin fields
        \/ "termsOfUseUrl" \notin fields \/ "colorImageFile" \notin fields
        \/ "outlineImageFile" \notin fields
    THEN reject(p, "error.fields_required")
    ELSE p

\* A variant that does not require termsOfUseUrl.
teamsFieldsCheck_NoTermsOfUse(p, fields) ==
    IF "publisherName" \notin fields \/ "longDescription" \notin fields
        \/ "shortDescription" \notin fields \/ "privacyUrl" \notin fields
        \/ "colorImageFile" \notin fields
    THEN reject(p, "error.fields_required")
    ELSE p

teamsFieldsCheck(p, fields) ==
    IF "publisherName" \notin fields \/ "longDescription" \notin fields
        \/ "shortDescription" \notin fields \/ "privacyUrl" \notin fields
        \/ "termsOfUseUrl" \notin fields \/ "colorImageFile" \notin fields
    THEN reject(p, "error.fields_required")
    ELSE p

\* A variant that does not forward the options.
teamsDispatch_DropsOptions(params) ==
    [type |-> "build", payload |-> BuildParams(platforms.msteams, params.href, NoOptions)]

teamsDispatch(params) ==
    [type |-> "build",
     payload |-> BuildParams(platforms.msteams, params.href, params.options)]

\* The executor of buildTeams: the promise it settles, and whether JSON.parse
\* threw.  The closing resolve() is a no-op once a check has rejected.
teamsExecutor(root, params) ==
    LET manifestId == root.generator.manifestId
        p1 == teamsManifestCheck(PendingPromise, manifestId)
        parsed == JSONparse(teamsOptionText(params.options))
    IN  IF ~parsed.ok
        THEN [promise |-> p1, threw |-> TRUE]
        ELSE [promise |-> resolve(teamsFieldsCheck(p1, parsed.fields)), threw |-> FALSE]

\* buildTeams as a whole: the executor, then the .then callback, which runs
\* only when the executor's promise is fulfilled and dispatches build.  The
\* result is the buildTeams invocation followed by the build it dispatched, if any.
teamsStart(root, params, self) ==
    LET manifestId == root.generator.manifestId
        ex == teamsExecutor(root, params)
        d == teamsDispatch(params)
        b == buildStart(root, d.payload, self)
    IN  IF ex.promise.st = "fulfilled"
        THEN <<follow(Invocation("buildTeams", 0, params, manifestId, UNDEFINED,
                                 PendingPromise, "delegated", <<>>, <<d>>),
                      b.promise),
               b>>
        ELSE <<Invocation("buildTeams", 0, params, manifestId, UNDEFINED, ex.promise,
                          IF ex.threw THEN "threw" ELSE "done", <<>>, <<>>)>>

buildTeams(params) ==
    /\ UserCalls < MaxCalls
    /\ calls' = calls \o teamsStart(rootState, params, Len(calls) + 1)
    /\ UNCHANGED <<state, rootState, resetLog>>

\* ------------------------------------------------------------------ the other actions

\* What the two dispatched reset actions do to the state this module reads.
resetStates(root) ==
    [generator |-> [manifestId |-> NULL, url |-> NULL],
     serviceworker |-> [serviceworker |-> NULL]]

\* A variant that resets the generator module only.
resetDispatches_GeneratorOnly == <<"generator/resetStates">>

\* The root actions resetAppData dispatches, in order.
resetDispatches == <<"generator/resetStates", "serviceworker/resetStates">>

resetAppData ==
    /\ resetLog' = resetDispatches
    /\ rootState' = resetStates(rootState)
    /\ UNCHANGED <<state, calls>>

\* A variant that reads the manifest id instead of the url.
updateStatus_FromManifestId ==
    /\ LET status == IF Falsy(rootState.generator.manifestId) THEN "false" ELSE "true"
       IN  state' = commit(state, types.UPDATE_STATUS, status)
    /\ UNCHANGED <<rootState, calls, resetLog>>

updateStatus ==
    /\ LET status == IF Falsy(rootState.generator.url) THEN "false" ELSE "true"
       IN  state' = commit(state, types.UPDATE_STATUS, status)
    /\ UNCHANGED <<rootState, calls, resetLog>>

disableDownloadButton ==
    /\ state' = commit(state, types.UPDATE_DOWNLOAD_DISABLED, TRUE)
    /\ UNCHANGED <<rootState, calls, resetLog>>

enableDownloadButton ==
    /\ state' = commit(state, types.UPDATE_DOWNLOAD_DISABLED, FALSE)
    /\ UNCHANGED <<rootState, calls, resetLog>>

\* ------------------------------------------------------------------ the environment

\* The generator and serviceworker modules produce a manifest id, a site url
\* and a service worker id.
RootStates ==
    {[generator |-> [manifestId |-> m, url |-> u], serviceworker |-> [serviceworker |-> w]] :
        m \in {NULL, "m1"}, u \in {NULL, "https://site"}, w \in {NULL, "sw1"}}

upstream(root) ==
    /\ root # rootState
    /\ rootState' = root
    /\ UNCHANGED <<state, calls, resetLog>>

\* ------------------------------------------------------------------ specification

Hrefs == {"https://site/a", "https://site/b"}

Init ==
    /\ state = InitialState
    /\ rootState = resetStates(<<>>)
    /\ calls = <<>>
    /\ resetLog = <<>>

\* The platform arguments callers pass: every key of the registry, every
\* registered identifier, and the empty string.
PlatformKeys ==
    {"web", "windows10", "windows", "ios", "android", "androidTWA", "samsung",
     "msteams", "all"}
PlatformArgs == PlatformKeys \cup {platforms[k] : k \in PlatformKeys} \cup {""}

BuildInputs(platformArgs) ==
    {BuildParams(pl, h, NoOptions) : pl \in platformArgs, h \in Hrefs} \cup {NoParams}

AppxInputs ==
    {AppxParams(pu, id, pk, v) :
        pu \in {"", "Contoso"}, id \in {NULL, "CN=1"}, pk \in {"", "pkg"}, v \in {"", "1.0.0"}}

TeamsInputs ==
    {TeamsParams(h, o) : h \in Hrefs,
        o \in {NoOptions, Options(<<>>)}
            \cup {Options(<<j>>) : j \in {JsonEmpty, JsonFull, JsonNoOutline, JsonNoTerms,
                                          JsonNoColor, JsonNoPublisher, JsonMalformed}}}

ErrorTexts == {TextPublisher, TextVersion, TextBoth, TextVersionNoDot, TextOther}

\* A smaller choice of each, for the runs in which invocations overlap.
CoreBuildInputs ==
    {BuildParams(pl, "https://site/a", NoOptions) : pl \in {"web", platforms.all}}

CoreAppxInputs ==
    {AppxParams("Contoso", "CN=1", "pkg", v) : v \in {"", "1.0.0"}}

CoreTeamsInputs ==
    {TeamsParams("https://site/a", Options(<<j>>)) : j \in {JsonFull, JsonNoTerms}}

CoreResponses ==
    {OkResponse(a) : a \in Archives}
        \cup {ErrResponse("object", TextPublisher), TransportFailure}

\* The states of the module and of the modules it reads that a single
\* invocation may start from.
PublishStates ==
    {InitialState,
     [status |-> "true", archiveLink |-> "https://x/old.zip",
      appXLink |-> "https://x/old.appx", downloadDisabled |-> TRUE]}

InitOne ==
    /\ state \in PublishStates
    /\ rootState \in RootStates
    /\ calls = <<>>
    /\ resetLog = <<>>

\* Every action of the module, with invocations that overlap.
Next ==
    \/ \E params \in CoreBuildInputs : build(params)
    \/ \E i \in DOMAIN calls, resp \in CoreResponses : buildResponse(i, resp)
    \/ \E params \in CoreAppxInputs : buildAppx(params)
    \/ \E i \in DOMAIN calls, resp \in CoreResponses : buildAppxResponse(i, resp)
    \/ \E params \in CoreTeamsInputs : buildTeams(params)
    \/ resetAppData
    \/ updateStatus
    \/ disableDownloadButton
    \/ enableDownloadButton
    \/ \E root \in RootStates : upstream(root)

Spec == Init /\ [][Next]_vars

\* A session: every action of the module, with one invocation of build,
\* buildAppx or buildTeams in it.
NextSession ==
    \/ \E params \in CoreBuildInputs : calls = <<>> /\ build(params)
    \/ \E params \in CoreAppxInputs : calls = <<>> /\ buildAppx(params)
    \/ \E params \in CoreTeamsInputs : calls = <<>> /\ buildTeams(params)
    \/ \E i \in DOMAIN calls, resp \in CoreResponses : buildResponse(i, resp)
    \/ \E i \in DOMAIN calls, resp \in CoreResponses : buildAppxResponse(i, resp)
    \/ resetAppData
    \/ updateStatus
    \/ disableDownloadButton
    \/ enableDownloadButton
    \/ \E root \in RootStates : upstream(root)

SpecSession == Init /\ [][NextSession]_vars

\* Overlapping invocations of build, buildAppx and buildTeams alone, from any
\* state of the module and of the modules it reads.
NextOverlap ==
    \/ \E params \in CoreBuildInputs : build(params)
    \/ \E i \in DOMAIN calls, resp \in CoreResponses : buildResponse(i, resp)
    \/ \E params \in CoreAppxInputs : buildAppx(params)
    \/ \E i \in DOMAIN calls, resp \in CoreResponses : buildAppxResponse(i, resp)
    \/ \E params \in CoreTeamsInputs : buildTeams(params)

SpecOverlap == InitOne /\ [][NextOverlap]_vars

\* One invocation of build, over every platform argument and every answer of
\* the service.
NextBuild ==
    \/ \E params \in BuildInputs(PlatformArgs) : calls = <<>> /\ build(params)
    \/ \E i \in DOMAIN calls, resp \in Responses(ErrorTexts) : buildResponse(i, resp)

SpecBuild == InitOne /\ [][NextBuild]_vars

\* One invocation of buildAppx, over every choice of empty fields and every
\* answer of the service.
NextAppx ==
    \/ \E params \in AppxInputs : calls = <<>> /\ buildAppx(params)
    \/ \E i \in DOMAIN calls, resp \in Responses(ErrorTexts) : buildAppxResponse(i, resp)

SpecAppx == InitOne /\ [][NextAppx]_vars

\* One invocation of buildTeams, over every option string, and the answer of
\* the service to the build it dispatches.
NextTeams ==
    \/ \E params \in TeamsInputs : calls = <<>> /\ buildTeams(params)
    \/ \E i \in DOMAIN calls, resp \in Responses(ErrorTexts) : buildResponse(i, resp)

SpecTeams == InitOne /\ [][NextTeams]_vars

\* ------------------------------------------------------------------ properties

Rejected(reason) == [st |-> "rejected", val |-> reason]

Builds == {i \in DOMAIN calls : calls[i].op = "build"}
Appxs == {i \in DOMAIN calls : calls[i].op = "buildAppx"}
Teams == {i \in DOMAIN calls : calls[i].op = "buildTeams"}

\* C1: a build issued while manifestId or serviceworker is missing is rejected
\* with error.manifest_required and sends no request to the build service.
C1_ManifestRequiredBeforeNetwork ==
    \A i \in Builds :
        Falsy(calls[i].manifestId) \/ Falsy(calls[i].serviceworker)
            => /\ calls[i].promise = Rejected("error.manifest_required")
               /\ calls[i].requests = <<>>

\* C2: a step of an invocation of build, buildAppx or buildTeams whose promise
\* is rejected leaves status, archiveLink, appXLink and downloadDisabled as
\* they were.
C2_FailureLeavesStateUnmodified ==
    [][\A i \in DOMAIN calls :
            calls'[i] # calls[i] /\ calls'[i].promise.st = "rejected" => state' = state]_vars

\* C3: a buildAppx with one of publisher, publisher_id, package, version empty
\* or absent sends no request to the appx endpoint, and with the manifest id
\* present it is rejected with error.fields_required.
C3_FieldsRequiredBeforeNetwork ==
    \A i \in Appxs :
        LET params == calls[i].params
        IN  Falsy(params.publisher) \/ Falsy(params.publisher_id)
                \/ Falsy(params.package) \/ Falsy(params.version)
                => /\ calls[i].requests = <<>>
                   /\ ~Falsy(calls[i].manifestId)
                        => calls[i].promise = Rejected("error.fields_required")

\* The fields buildTeams requires of the decoded options.
RequiredTeamsFields ==
    {"publisherName", "shortDescription", "longDescription", "privacyUrl",
     "termsOfUseUrl", "colorImageFile"}

TeamsDecoded(i) == JSONparse(teamsOptionText(calls[i].params.options))

TeamsPreconditionFails(i) ==
    \/ Falsy(calls[i].manifestId)
    \/ TeamsDecoded(i).ok /\ ~(RequiredTeamsFields \subseteq TeamsDecoded(i).fields)

Delegated(i) == {j \in Builds : calls[j].via = i}

\* C4: a buildTeams that fails a precondition (manifest id missing, or a
\* required field missing from well-formed options) never dispatches build:
\* no request is sent, nothing is committed, and the caller sees the
\* precondition error.
C4_TeamsPreconditionNeverDispatches ==
    \A i \in Teams :
        TeamsPreconditionFails(i)
            => /\ calls[i].dispatched = <<>>
               /\ Delegated(i) = {}
               /\ \A j \in DOMAIN calls : calls[j].requests = <<>> /\ calls[j].commits = <<>>
               /\ calls[i].promise =
                    Rejected(IF Falsy(calls[i].manifestId)
                             THEN "error.manifest_required"
                             ELSE "error.fields_required")

C4_Witness ==
    \E i \in Teams :
        /\ ~Falsy(calls[i].manifestId)
        /\ calls[i].params.options = Options(<<JsonNoTerms>>)
        /\ calls[i].pc = "done"
        /\ calls[i].promise = Rejected("error.fields_required")
        /\ Delegated(i) = {}

\* C5: a buildTeams with the manifest id and every required field present
\* dispatches build exactly once, with platform msteams and the href and
\* options it received; when that build is fulfilled, archiveLink is the
\* archive of the response and buildTeams is fulfilled; when that build is
\* rejected, buildTeams is rejected with the same error.
C5_TeamsDelegatesToBuild ==
    \A i \in Teams :
        /\ ~Falsy(calls[i].manifestId)
        /\ TeamsDecoded(i).ok
        /\ RequiredTeamsFields \subseteq TeamsDecoded(i).fields
        => LET expected ==
                   [present |-> TRUE, platform |-> "msteams",
                    href |-> calls[i].params.href, options |-> calls[i].params.options]
           IN  /\ calls[i].dispatched = <<[type |-> "build", payload |-> expected]>>
               /\ Cardinality(Delegated(i)) = 1
               /\ \A j \in Delegated(i) :
                    /\ calls[j].params = expected
                    /\ calls[j].promise.st = "fulfilled"
                        => /\ state.archiveLink = calls[j].resp.archive
                           /\ calls[i].promise.st = "fulfilled"
                    /\ calls[j].promise.st = "rejected"
                        => calls[i].promise = calls[j].promise

C5_Witness ==
    \E i \in Teams : \E j \in Delegated(i) :
        /\ calls[i].params.options = Options(<<JsonNoOutline>>)
        /\ calls[j].answered
        /\ calls[j].resp.ok
        /\ calls[i].promise.st = "fulfilled"
        /\ state.archiveLink = calls[j].resp.archive

\* C6: the step in which a build receives a successful response with archive A
\* sets archiveLink to A and changes no other field of the state; the step in
\* which a buildAppx receives one sets appXLink to A and changes no other field.
C6_SuccessWritesOneLink ==
    [][\A i \in DOMAIN calls :
            ~calls[i].answered /\ calls'[i].answered /\ calls'[i].resp.ok
                => /\ calls[i].op = "build"
                        => state' = [state EXCEPT !.archiveLink = calls'[i].resp.archive]
                   /\ calls[i].op = "buildAppx"
                        => state' = [state EXCEPT !.appXLink = calls'[i].resp.archive]]_vars

C6_Witness ==
    \E i \in Builds, j \in Appxs :
        /\ calls[i].answered /\ calls[i].resp.ok
        /\ calls[j].answered /\ calls[j].resp.ok
        /\ calls[i].resp.archive # calls[j].resp.archive
        /\ state.archiveLink = calls[i].resp.archive
        /\ state.appXLink = calls[j].resp.archive

\* C7 as stated: a build whose platform argument is the key all sends the
\* platforms list [web, windows10, windows, ios, android, androidTWA, samsung,
\* msteams].
C7_AllKeyExpandsToKeys ==
    \A i \in Builds :
        calls[i].params.present /\ calls[i].params.platform = "all"
            => /\ Len(calls[i].requests) = 1
               /\ calls[i].requests[1].body.platforms =
                    <<"web", "windows10", "windows", "ios", "android", "androidTWA",
                      "samsung", "msteams">>

\* C7 as amended: a build whose platform argument is the identifier registered
\* under the key all, the string All, sends the identifiers registered under
\* web, windows10, windows, ios, android, androidTWA, samsung and msteams, in
\* that order: the same list on every call, without duplicates and without All.
C7_AllExpandsToIdentifiers ==
    \A i \in Builds :
        calls[i].params.present /\ calls[i].params.platform = "All"
            => /\ Len(calls[i].requests) = 1
               /\ calls[i].requests[1].body.platforms =
                    <<"web", "windows10", "windows", "ios", "android", "android-twa",
                      "samsung", "msteams">>

C7_Witness ==
    \E i \in Builds :
        /\ calls[i].params.platform = "All"
        /\ Len(calls[i].requests) = 1
        /\ Len(calls[i].requests[1].body.platforms) = 8
        /\ calls[i].promise.st = "fulfilled"

\* C8: a build whose platform argument is a key of the registry other than all
\* sends a platforms list of exactly one element, the key passed in.
C8_SinglePlatformList ==
    \A i \in Builds :
        calls[i].params.present /\ calls[i].params.platform \in PlatformKeys \ {"all"}
            => /\ Len(calls[i].requests) = 1
               /\ calls[i].requests[1].body.platforms = <<calls[i].params.platform>>

C8_Witness ==
    \E i \in Builds :
        /\ calls[i].params.platform = "androidTWA"
        /\ calls[i].requests[1].body.platforms = <<"androidTWA">>
        /\ calls[i].promise.st = "fulfilled"

\* The raw error text of a failure answer to buildAppx: the error field of the
\* body when there is one, else the string form of the response.
AppxErrorText(resp) == IF resp.error # UNDEFINED THEN resp.error ELSE ObjectString

\* C9: for every failure the service reports to a buildAppx that passed both of
\* its checks, the caller sees exactly one of three errors, chosen by the first marker the raw error text
\* contains: the publisher marker gives Invalid Publisher Identity, else the
\* version marker gives Invalid Version Number, else Package building error.
C9_AppxFailureClassified ==
    \A i \in Appxs :
        /\ calls[i].answered /\ ~calls[i].resp.ok /\ calls[i].resp.hasResponse
        /\ ~Falsy(calls[i].manifestId)
        /\ \A f \in DOMAIN calls[i].params : ~Falsy(calls[i].params[f])
        => LET text == AppxErrorText(calls[i].resp)
           IN  calls[i].promise =
                 Rejected(CASE includes(text, PublisherMarker) ->
                                "Invalid Publisher Identity."
                            [] ~includes(text, PublisherMarker)
                                 /\ includes(text, VersionMarker) ->
                                "Invalid Version Number."
                            [] OTHER -> "Package building error.")

\* C10: when the service reports a failure to a build that passed both of its
\* checks, the build is rejected with the error field of the response body if
\* there is one, else with the raw body if there is one, else with the status
\* text.
C10_BuildFailedMessagePreference ==
    \A i \in Builds :
        /\ calls[i].answered /\ ~calls[i].resp.ok /\ calls[i].resp.hasResponse
        /\ ~Falsy(calls[i].manifestId) /\ ~Falsy(calls[i].serviceworker)
        /\ ~Falsy(calls[i].params.platform)
        => calls[i].promise =
             Rejected(IF calls[i].resp.error # UNDEFINED THEN calls[i].resp.error
                      ELSE IF calls[i].resp.dataKind # "absent" THEN RawBody(calls[i].resp)
                      ELSE calls[i].resp.statusText)

\* C11: the body buildAppx sends has name equal to the caller's publisher,
\* publisher equal to the caller's publisher_id, package equal to the caller's
\* package and version equal to the caller's version.
C11_AppxBodyMapping ==
    \A i \in Appxs :
        /\ Len(calls[i].requests) = 1
        /\ calls[i].requests[1].endpoint = "appx"
        /\ calls[i].requests[1].body.name = calls[i].params.publisher
        /\ calls[i].requests[1].body.publisher = calls[i].params.publisher_id
        /\ calls[i].requests[1].body.package = calls[i].params.package
        /\ calls[i].requests[1].body.version = calls[i].params.version

C11_Witness ==
    \E i \in Appxs :
        /\ calls[i].params.publisher = "Contoso"
        /\ calls[i].params.publisher_id = "CN=1"
        /\ calls[i].requests[1].body.name = "Contoso"
        /\ calls[i].requests[1].body.publisher = "CN=1"
        /\ calls[i].promise.st = "fulfilled"

\* C12: disableDownloadButton and enableDownloadButton can always be taken;
\* a disableDownloadButton step leaves downloadDisabled true and an
\* enableDownloadButton step leaves it false, whatever it was before (so each
\* is idempotent, and disable followed by enable leaves it false), and neither
\* changes any other field.
C12_DownloadButton ==
    /\ [](ENABLED disableDownloadButton /\ ENABLED enableDownloadButton)
    /\ [][/\ disableDownloadButton
                => state' = [state EXCEPT !.downloadDisabled = TRUE]
          /\ enableDownloadButton
                => state' = [state EXCEPT !.downloadDisabled = FALSE]]_vars

\* downloadDisabled is true, which only disableDownloadButton brings about,
\* and an enableDownloadButton step from here leaves it false.
C12_Witness ==
    /\ state.downloadDisabled = TRUE
    /\ state.archiveLink # NULL
    /\ ENABLED (enableDownloadButton /\ state'.downloadDisabled = FALSE)

\* C13: a resetAppData step dispatches generator/resetStates and then
\* serviceworker/resetStates, each once, and leaves status, archiveLink,
\* appXLink and downloadDisabled as they were.
C13_ResetLeavesPublishState ==
    [][resetAppData
         => /\ resetLog' = <<"generator/resetStates", "serviceworker/resetStates">>
            /\ state' = state]_vars

C13_Witness ==
    /\ resetLog = <<"generator/resetStates", "serviceworker/resetStates">>
    /\ rootState.generator.manifestId = NULL
    /\ state.archiveLink \in Archives
    /\ \E i \in Builds : calls[i].manifestId # NULL /\ calls[i].answered

\* C14 as stated: a build that fails both checks is rejected with
\* error.platform_required, the later rejection replacing the earlier one.
C14_LaterRejectionWins ==
    \A i \in Builds :
        /\ Falsy(calls[i].manifestId) \/ Falsy(calls[i].serviceworker)
        /\ ~calls[i].params.present \/ Falsy(calls[i].params.platform)
        => calls[i].promise = Rejected("error.platform_required")

\* C14 as amended: a build that fails both checks is rejected with
\* error.manifest_required: both checks run, and the first rejection stands.
C14_FirstRejectionStands ==
    \A i \in Builds :
        /\ Falsy(calls[i].manifestId) \/ Falsy(calls[i].serviceworker)
        /\ ~calls[i].params.present \/ Falsy(calls[i].params.platform)
        => calls[i].promise = Rejected("error.manifest_required")

C14_Witness ==
    \E i \in Builds :
        /\ Falsy(calls[i].manifestId)
        /\ calls[i].params.present
        /\ calls[i].params.platform = ""
        /\ calls[i].answered
        /\ calls[i].promise = Rejected("error.manifest_required")

\* C15: once the service has answered an invocation of build, buildAppx or
\* buildTeams, or the transport has failed, or its handler has ended, the
\* promise the caller holds is settled.
C15_EveryInvocationSettles ==
    \A i \in DOMAIN calls :
        calls[i].answered \/ calls[i].pc \in {"done", "threw"}
            => calls[i].promise.st # "pending"

OkAnswered(S) == {i \in S : calls[i].answered /\ calls[i].resp.ok}

LastArrived(S) == CHOOSE i \in S : \A j \in S : calls[j].arrival <= calls[i].arrival

\* C16: every build in flight has sent its request and every successful answer
\* is committed, also to an invocation already rejected; archiveLink is the
\* archive of the successful build answer that arrived last, whatever the order
\* the builds were issued in, and appXLink that of the successful buildAppx
\* answer that arrived last; answers to one kind never write the other's link.
C16_LastArrivalWins ==
    /\ \A i \in Builds : calls[i].params.present => Len(calls[i].requests) = 1
    /\ \A i \in Appxs : Len(calls[i].requests) = 1
    /\ \A i \in OkAnswered(Builds) :
            calls[i].commits =
                <<[type |-> "UPDATE_ARCHIVELINK", payload |-> calls[i].resp.archive]>>
    /\ \A i \in OkAnswered(Appxs) :
            calls[i].commits =
                <<[type |-> "UPDATE_APPXLINK", payload |-> calls[i].resp.archive]>>
    /\ IF OkAnswered(Builds) = {}
       THEN state.archiveLink \notin Archives
       ELSE state.archiveLink = calls[LastArrived(OkAnswered(Builds))].resp.archive
    /\ IF OkAnswered(Appxs) = {}
       THEN state.appXLink \notin Archives
       ELSE state.appXLink = calls[LastArrived(OkAnswered(Appxs))].resp.archive

\* Two builds in flight together, the one issued first answered last.
C16_Witness ==
    \E i, j \in OkAnswered(Builds) :
        /\ i < j
        /\ calls[i].via = 0 /\ calls[j].via = 0
        /\ calls[i].arrival > calls[j].arrival
        /\ calls[i].resp.archive # calls[j].resp.archive
        /\ state.archiveLink = calls[i].resp.archive

FiveTeamsFields ==
    {"publisherName", "shortDescription", "longDescription", "privacyUrl", "termsOfUseUrl"}

\* C17 as stated: with the manifest id present and the options decoded,
\* buildTeams is rejected with error.fields_required exactly when one of
\* publisherName, shortDescription, longDescription, privacyUrl, termsOfUseUrl
\* is missing.
C17_FiveFieldsRequired ==
    \A i \in Teams :
        ~Falsy(calls[i].manifestId) /\ TeamsDecoded(i).ok
            => (calls[i].promise = Rejected("error.fields_required")
                    <=> ~(FiveTeamsFields \subseteq TeamsDecoded(i).fields))

\* C17 as amended: with the manifest id present and the options absent or
\* decoded to an object, buildTeams is rejected with error.fields_required
\* exactly when one of publisherName, shortDescription, longDescription,
\* privacyUrl, termsOfUseUrl, colorImageFile is missing; absent options decode
\* to an empty object and are rejected so; outlineImageFile plays no part.
C17_SixFieldsRequired ==
    \A i \in Teams :
        ~Falsy(calls[i].manifestId) /\ TeamsDecoded(i).ok
            => /\ calls[i].promise = Rejected("error.fields_required")
                    <=> ~((FiveTeamsFields \cup {"colorImageFile"})
                            \subseteq TeamsDecoded(i).fields)
               /\ ~calls[i].params.options.present
                    => calls[i].promise = Rejected("error.fields_required")

C17_Witness ==
    \E i \in Teams :
        /\ ~Falsy(calls[i].manifestId)
        /\ calls[i].params.options = Options(<<JsonNoColor>>)
        /\ calls[i].promise = Rejected("error.fields_required")

\* C18: every request build sends has dirSuffix equal to the platform argument
\* it was called with: All itself, and no element of the expanded list, for a
\* build of all platforms, and msteams for a build dispatched by buildTeams.
C18_DirSuffixIsPlatformArgument ==
    \A i \in Builds : \A k \in DOMAIN calls[i].requests :
        LET body == calls[i].requests[k].body
        IN  /\ body.dirSuffix = calls[i].params.platform
            /\ calls[i].params.platform = "All"
                => /\ body.dirSuffix = "All"
                   /\ \A n \in DOMAIN body.platforms : body.platforms[n] # body.dirSuffix
            /\ calls[i].via # 0 => body.dirSuffix = "msteams"

C18_Witness ==
    /\ \E i \in Builds :
        /\ calls[i].via = 0
        /\ calls[i].params.platform = "All"
        /\ calls[i].requests[1].body.dirSuffix = "All"
        /\ Len(calls[i].requests[1].body.platforms) = 8
    /\ \E i \in Builds :
        /\ calls[i].via # 0
        /\ calls[i].requests[1].body.dirSuffix = "msteams"

\* C19: status is null at the start; a step changes it only if it is an
\* updateStatus step; an updateStatus step leaves it true if the generator's
\* url is non-empty at that moment and false otherwise; once it is not null it
\* is never null again.
C19_StatusFollowsUrl ==
    /\ state.status = "null"
    /\ [][/\ updateStatus
                => state'.status =
                     IF rootState.generator.url \in {NULL, UNDEFINED, ""}
                     THEN "false" ELSE "true"
          /\ state'.status # state.status => updateStatus
          /\ state.status # "null" => state'.status # "null"]_vars

\* status was computed from a url that has since been reset, and the
\* invocations and the reset that followed have left it alone.
C19_Witness ==
    /\ state.status = "true"
    /\ rootState.generator.url = NULL
    /\ resetLog # <<>>
    /\ \E i \in DOMAIN calls : calls[i].answered

====
